---- MODULE Spec2Model ----
(***************************************************************************)
(* Model of app.py, the Streamlit calculator that tells Heart Failure from *)
(* Pneumonia.  Streamlit executes the whole script top to bottom on the    *)
(* first page load and again on every interaction; the only thing that     *)
(* survives from one execution to the next inside the process is the       *)
(* st.cache_resource store of load_model.  model.joblib and config.json    *)
(* are files that the operator may replace while the process runs.         *)
(*                                                                         *)
(* Floats are fixed point: probabilities and thresholds in hundredths      *)
(* (One = 1.0), the six form inputs in tenths.                             *)
(***************************************************************************)
EXTENDS Integers, Sequences, FiniteSets, TLC

One == 100
DefaultCutoff == 50
MaxLoads == 2

POSITIVE_CLASS_NAME == "Heart Failure"
NEGATIVE_CLASS_NAME == "Pneumonia"
CutoffKey == "youden_threshold"

Range(s) == {s[i] : i \in DOMAIN s}

Ok(v) == [ok |-> TRUE, val |-> v, err |-> ""]
Raise(e) == [ok |-> FALSE, val |-> 0, err |-> e]

(***************************************************************************)
(* config.json.  A file is missing, unreadable, not JSON, or holds a JSON  *)
(* document.  Of a document only its type matters and, for an object,      *)
(* whether it has the key youden_threshold and which value is under it.    *)
(***************************************************************************)
JNum(n) == [t |-> "num", n |-> n, s |-> ""]
JStr(s) == [t |-> "str", n |-> 0, s |-> s]
JBool(b) == [t |-> "bool", n |-> IF b THEN 1 ELSE 0, s |-> ""]
JNull == [t |-> "null", n |-> 0, s |-> ""]
JList == [t |-> "list", n |-> 0, s |-> ""]

JObject(keys, v) == [t |-> "object", keys |-> keys, v |-> v]
JOther(t) == [t |-> t, keys |-> {}, v |-> JNull]
EmptyMapping == JObject({}, JNull)

NoFile(kind) == [kind |-> kind, doc |-> JOther("null")]
JsonFile(doc) == [kind |-> "json", doc |-> doc]

\* float(str): the numeric literals parse, anything else is a ValueError
ParseFloat(s) ==
    CASE s = "0.35" -> Ok(35)
      [] s = "0.75" -> Ok(75)
      [] s = "1" -> Ok(One)
      [] OTHER -> Raise("ValueError")

\* float(v) of a decoded JSON value
PyFloat(v) ==
    CASE v.t = "num" -> Ok(v.n)
      [] v.t = "bool" -> Ok(v.n * One)
      [] v.t = "str" -> ParseFloat(v.s)
      [] OTHER -> Raise("TypeError")

\* load_json(path, default): any exception of open or json.load gives default
load_json(file, default) ==
    IF file.kind = "json" THEN file.doc ELSE default

\* config.get("youden_threshold", 0.50)
DictGet(config, key, default) ==
    IF config.t # "object" THEN [ok |-> FALSE, val |-> JNull, err |-> "AttributeError"]
    ELSE [ok |-> TRUE, val |-> IF key \in config.keys THEN config.v ELSE default, err |-> ""]

\* CUTOFF = float(config.get("youden_threshold", 0.50))
CutoffOf(config) ==
    LET got == DictGet(config, CutoffKey, JNum(DefaultCutoff))
    IN  IF got.ok THEN PyFloat(got.val) ELSE Raise(got.err)

(***************************************************************************)
(* model.joblib and the classifier inside it.  A classifier is described   *)
(* by what predict_proba_hf asks of it: which methods it exposes, its      *)
(* classes_ and what it answers for the row it is handed.                  *)
(***************************************************************************)
Classifier(id, hasProba, hasDecision, hasClasses, classes, row, score) ==
    [id |-> id, hasProba |-> hasProba, hasDecision |-> hasDecision,
     hasClasses |-> hasClasses, classes |-> classes, row |-> row, score |-> score]

NoModel == Classifier(0, FALSE, FALSE, FALSE, <<>>, <<>>, 0)

NoArtifact(kind) ==
    [kind |-> kind, fields |-> {}, model |-> NoModel, features |-> <<>>]
Bundle(fields, m, feats) ==
    [kind |-> "bundle", fields |-> fields,
     model |-> IF "model" \in fields THEN m ELSE NoModel,
     features |-> IF "features" \in fields THEN feats ELSE <<>>]

\* joblib.load("model.joblib")
JoblibLoad(file) ==
    IF file.kind = "bundle" THEN [ok |-> TRUE, obj |-> file, err |-> ""]
    ELSE [ok |-> FALSE, obj |-> file,
          err |-> IF file.kind = "missing" THEN "FileNotFoundError" ELSE "UnpicklingError"]

\* load_model as it would be with obj.get(...): a missing field is no error
LoadModelBodyLenient(file) ==
    LET got == JoblibLoad(file)
    IN  IF ~got.ok
        THEN [ok |-> FALSE, model |-> NoModel, features |-> <<>>, err |-> got.err, loaded |-> 0]
        ELSE [ok |-> TRUE, model |-> got.obj.model, features |-> got.obj.features,
              err |-> "", loaded |-> 1]

\* the body of load_model: obj = joblib.load(...); return obj["model"], obj["features"]
LoadModelBody(file) ==
    LET got == JoblibLoad(file)
    IN  IF ~got.ok
        THEN [ok |-> FALSE, model |-> NoModel, features |-> <<>>, err |-> got.err, loaded |-> 0]
        ELSE IF {"model", "features"} \subseteq got.obj.fields
             THEN [ok |-> TRUE, model |-> got.obj.model, features |-> got.obj.features,
                   err |-> "", loaded |-> 1]
             ELSE [ok |-> FALSE, model |-> NoModel, features |-> <<>>,
                   err |-> "KeyError", loaded |-> 1]

EmptyCache == [full |-> FALSE, model |-> NoModel, features |-> <<>>]

\* load_model as it would be without the decorator: the body runs on every call
load_model_uncached(store, file) ==
    LET r == LoadModelBody(file)
    IN  [ok |-> r.ok, model |-> r.model, features |-> r.features,
         err |-> r.err, loaded |-> r.loaded,
         store |-> IF r.ok
                   THEN [full |-> TRUE, model |-> r.model, features |-> r.features]
                   ELSE store]

\* @st.cache_resource around load_model: a stored return value is handed out
\* again without running the body; a call that raises stores nothing
load_model(store, file) ==
    IF store.full
    THEN [ok |-> TRUE, model |-> store.model, features |-> store.features,
          err |-> "", loaded |-> 0, store |-> store]
    ELSE LET r == LoadModelBody(file)
         IN  [ok |-> r.ok, model |-> r.model, features |-> r.features,
              err |-> r.err, loaded |-> r.loaded,
              store |-> IF r.ok
                        THEN [full |-> TRUE, model |-> r.model, features |-> r.features]
                        ELSE store]

(***************************************************************************)
(* The form and the data frame                                             *)
(***************************************************************************)
Names == <<"Age", "AG", "CREA", "UA", "RDW", "PDW">>

Inputs(age, ag, crea, ua, rdw, pdw) ==
    [Age |-> age, AG |-> ag, CREA |-> crea, UA |-> ua, RDW |-> rdw, PDW |-> pdw]

\* the values the six number_input widgets start with, in tenths
FormDefaults == Inputs(700, 160, 900, 3500, 135, 125)

\* pd.DataFrame([{"Age": age, ...}]): one row, columns in the order of the dict
DataFrame(in) == [i \in 1..Len(Names) |-> [name |-> Names[i], value |-> in[Names[i]]]]

Columns(df) == {df[i].name : i \in DOMAIN df}
Column(df, name) == df[CHOOSE i \in DOMAIN df : df[i].name = name]

\* the frame as it would be without [FEATURES]: the columns as collected
SelectAsCollected(df, feats) ==
    IF Range(feats) \subseteq Columns(df)
    THEN [ok |-> TRUE, val |-> df, err |-> ""]
    ELSE [ok |-> FALSE, val |-> <<>>, err |-> "KeyError"]

\* df[FEATURES]: the columns named by FEATURES, in the order of FEATURES
Select(df, feats) ==
    IF Range(feats) \subseteq Columns(df)
    THEN [ok |-> TRUE, val |-> [i \in 1..Len(feats) |-> Column(df, feats[i])], err |-> ""]
    ELSE [ok |-> FALSE, val |-> <<>>, err |-> "KeyError"]

Values(df) == [i \in 1..Len(df) |-> df[i].value]

(***************************************************************************)
(* predict_proba_hf                                                        *)
(***************************************************************************)
\* 1 / (1 + exp(-score)) for whole scores, rounded to hundredths
Sigmoid(score) ==
    CASE score <= -6 -> 0
      [] score = -5 -> 1
      [] score = -4 -> 2
      [] score = -3 -> 5
      [] score = -2 -> 12
      [] score = -1 -> 27
      [] score = 0 -> 50
      [] score = 1 -> 73
      [] score = 2 -> 88
      [] score = 3 -> 95
      [] score = 4 -> 98
      [] score = 5 -> 99
      [] OTHER -> One

\* list.index(v): 0-based position of the first occurrence
ListIndex(list, v) == (CHOOSE i \in DOMAIN list : list[i] = v /\ \A j \in 1..(i - 1) : list[j] # v) - 1

\* proba[0, j]: column j (0-based) of the first row
Entry(row, j) ==
    IF j + 1 \in DOMAIN row THEN Ok(row[j + 1]) ELSE Raise("IndexError")

PositiveLabel == 1
FallbackColumn == 1

predict_proba_hf(m, x_df) ==
    IF m.hasProba
    THEN LET proba == m.row
             classes == IF m.hasClasses THEN m.classes ELSE <<0, 1>>
             p == IF PositiveLabel \in Range(classes)
                  THEN Entry(proba, ListIndex(classes, PositiveLabel))
                  ELSE Entry(proba, FallbackColumn)
         IN  [ok |-> p.ok, val |-> p.val, err |-> p.err, calls |-> <<"predict_proba">>]
    ELSE IF m.hasDecision
         THEN [ok |-> TRUE, val |-> Sigmoid(m.score), err |-> "",
               calls |-> <<"decision_function">>]
         ELSE [ok |-> FALSE, val |-> 0, err |-> "AttributeError", calls |-> <<>>]

\* p_pna as it would be with a clip to [0, 1]
ComplementClipped(p) ==
    IF One - p < 0 THEN 0 ELSE IF One - p > One THEN One ELSE One - p

\* p_pna = 1.0 - p_hf
Complement(p) == One - p

\* pred_label as it would be with > for >=
PredLabelStrict(p, cutoff) ==
    IF p > cutoff THEN POSITIVE_CLASS_NAME ELSE NEGATIVE_CLASS_NAME

\* pred_label = POSITIVE_CLASS_NAME if p_hf >= CUTOFF else NEGATIVE_CLASS_NAME
PredLabel(p, cutoff) ==
    IF p >= cutoff THEN POSITIVE_CLASS_NAME ELSE NEGATIVE_CLASS_NAME

(***************************************************************************)
(* State                                                                   *)
(***************************************************************************)
VARIABLES
    disk_model,     \* model.joblib on disk
    disk_config,    \* config.json on disk
    store,          \* what st.cache_resource holds for load_model
    model,          \* the globals of the latest execution of the script
    FEATURES,
    config,
    CUTOFF,
    form,           \* age, ag, crea, ua, rdw, pdw as the form returned them
    x,              \* the row handed to the model
    p_hf,
    p_pna,
    pred_label,
    card,           \* the result card as rendered
    log,            \* the steps the latest execution completed, in order
    error,          \* the exception that ended the latest execution, "" if none
    calls,          \* the methods of the model the latest execution called
    hit,            \* the latest load_model call was answered from the store
    on_disk,        \* model.joblib as it was when the latest execution ran
    loads,          \* how often joblib.load has returned an object so far
    first_cutoff    \* the threshold derived by the first execution that derived one

vars == <<disk_model, disk_config, store, model, FEATURES, config, CUTOFF, form, x, p_hf,
          p_pna, pred_label, card, log, error, calls, hit, on_disk, loads, first_cutoff>>

NoCard == [shown |-> FALSE, hf |-> 0, pna |-> 0, label |-> "", t |-> 0]
Unset == [set |-> FALSE, v |-> 0]
NoInputs == Inputs(0, 0, 0, 0, 0, 0)

\* a script execution that has bound and shown nothing yet
Blank ==
    [model |-> NoModel, FEATURES |-> <<>>, config |-> EmptyMapping, CUTOFF |-> 0,
     form |-> NoInputs, x |-> <<>>, p_hf |-> 0, p_pna |-> 0, pred_label |-> "", card |-> NoCard,
     log |-> <<>>, error |-> "", calls |-> <<>>]

\* lines 97-117: the submitted branch, from the frame to the result card
Submit(run) ==
    LET sel == Select(DataFrame(run.form), run.FEATURES)
    IN  IF ~sel.ok THEN [run EXCEPT !.error = sel.err]
        ELSE
        LET row == Values(sel.val)
            p == predict_proba_hf(run.model, row)
            atPredict == [run EXCEPT !.x = row, !.calls = p.calls,
                                     !.log = Append(run.log, "DataFrame")]
        IN  IF ~p.ok THEN [atPredict EXCEPT !.error = p.err]
            ELSE
            LET pna == Complement(p.val)
                label == PredLabel(p.val, run.CUTOFF)
            IN  [atPredict EXCEPT
                    !.p_hf = p.val, !.p_pna = pna, !.pred_label = label,
                    !.card = [shown |-> TRUE, hf |-> p.val, pna |-> pna,
                              label |-> label, t |-> run.CUTOFF],
                    !.log = atPredict.log \o <<"predict_proba_hf", "result">>]

\* lines 24-117: one execution of the script, given what load_model returned
Script(lm, file, submitted, in) ==
    IF ~lm.ok THEN [Blank EXCEPT !.error = lm.err]
    ELSE
    LET cfg == load_json(file, EmptyMapping)
        c == CutoffOf(cfg)
        atConfig == [Blank EXCEPT !.model = lm.model, !.FEATURES = lm.features,
                                  !.config = cfg, !.log = <<"load_model", "load_json">>]
    IN  IF ~c.ok THEN [atConfig EXCEPT !.error = c.err]
        ELSE
        LET atForm == [atConfig EXCEPT !.CUTOFF = c.val, !.form = in,
                                       !.log = atConfig.log \o <<"CUTOFF", "form">>]
        IN  IF submitted THEN Submit(atForm) ELSE atForm

(***************************************************************************)
(* Actions                                                                 *)
(***************************************************************************)
\* Streamlit runs the script: on page load (submitted = FALSE) or because the
\* Predict button of the form was pressed with the values in entered
Rerun(submitted, in) ==
    LET lm == load_model(store, disk_model)
        run == Script(lm, disk_config, submitted, in)
    IN  /\ loads + lm.loaded <= MaxLoads
        /\ store' = lm.store
        /\ loads' = loads + lm.loaded
        /\ model' = run.model
        /\ FEATURES' = run.FEATURES
        /\ config' = run.config
        /\ CUTOFF' = run.CUTOFF
        /\ form' = run.form
        /\ x' = run.x
        /\ p_hf' = run.p_hf
        /\ p_pna' = run.p_pna
        /\ pred_label' = run.pred_label
        /\ card' = run.card
        /\ log' = run.log
        /\ error' = run.error
        /\ calls' = run.calls
        /\ hit' = store.full
        /\ on_disk' = disk_model
        /\ first_cutoff' = IF ~first_cutoff.set /\ "CUTOFF" \in Range(run.log)
                           THEN [set |-> TRUE, v |-> run.CUTOFF]
                           ELSE first_cutoff
        /\ UNCHANGED <<disk_model, disk_config>>

script == <<model, FEATURES, config, CUTOFF, form, x, p_hf, p_pna, pred_label, card,
            log, error, calls, hit, on_disk>>

\* the operator replaces config.json
WriteConfig(file) ==
    /\ file # disk_config
    /\ disk_config' = file
    /\ UNCHANGED <<disk_model, store, script, loads, first_cutoff>>

\* the operator replaces model.joblib
WriteModel(file) ==
    /\ file # disk_model
    /\ disk_model' = file
    /\ UNCHANGED <<disk_config, store, script, loads, first_cutoff>>

Fresh ==
    /\ store = EmptyCache
    /\ model = NoModel
    /\ FEATURES = <<>>
    /\ config = EmptyMapping
    /\ CUTOFF = 0
    /\ form = NoInputs
    /\ x = <<>>
    /\ p_hf = 0
    /\ p_pna = 0
    /\ pred_label = ""
    /\ card = NoCard
    /\ log = <<>>
    /\ error = ""
    /\ calls = <<>>
    /\ hit = FALSE
    /\ on_disk = NoArtifact("unseen")
    /\ loads = 0
    /\ first_cutoff = Unset

(***************************************************************************)
(* What the files may hold                                                 *)
(***************************************************************************)
\* thresholds a config may carry as a number: the sweep of the tests, the
\* example 0.35, and two values outside [0, 1]
Thresholds == {-25, 0, 25, 35, 50, 75, One, 150}

CutoffValues ==
    {JNum(n) : n \in Thresholds}
        \cup {JStr("0.35"), JStr("abc"), JStr(""), JBool(TRUE), JNull, JList}

ConfigFiles ==
    {NoFile("missing"), NoFile("unreadable"), NoFile("malformed")}
        \cup {JsonFile(JOther(t)) : t \in {"list", "num", "str", "null"}}
        \cup {JsonFile(EmptyMapping), JsonFile(JObject({"note"}, JNull))}
        \cup {JsonFile(JObject({CutoffKey}, v)) : v \in CutoffValues}

ExampleOrder == <<"CREA", "Age", "AG", "PDW", "RDW", "UA">>

Orders(seq) ==
    {[i \in DOMAIN seq |-> seq[f[i]]] :
        f \in {g \in [DOMAIN seq -> DOMAIN seq] : \A i, j \in DOMAIN seq : i # j => g[i] # g[j]}}

Labels == {0, 1, 2}
ProbValues == {0, 35, 50, One, 120}
Scores == {-6, -1, 0, 2, 6}

DistinctSeqs(S, n) == {q \in [1..n -> S] : \A i, j \in 1..n : i # j => q[i] # q[j]}

\* a fitted estimator with predict_proba: one column per class of classes_
Estimators(n) ==
    {Classifier(1, TRUE, d, TRUE, cl, row, 0) :
        d \in BOOLEAN, cl \in DistinctSeqs(Labels, n), row \in [1..n -> ProbValues]}

\* an object with predict_proba and no classes_
Bare(n) == {Classifier(2, TRUE, FALSE, FALSE, <<>>, row, 0) : row \in [1..n -> ProbValues]}

\* a model with decision_function only, and one with neither method
Scorers == {Classifier(3, FALSE, TRUE, TRUE, <<0, 1>>, <<>>, sc) : sc \in Scores}
Opaque == Classifier(4, FALSE, FALSE, FALSE, <<>>, <<>>, 0)

Models == Estimators(1) \cup Estimators(2) \cup Bare(1) \cup Bare(2) \cup Scorers \cup {Opaque}

ModelA == Classifier(1, TRUE, FALSE, TRUE, <<0, 1>>, <<65, 35>>, 0)
ModelB == Classifier(3, FALSE, TRUE, TRUE, <<0, 1>>, <<>>, 1)

BrokenArtifacts ==
    {NoArtifact("missing"), NoArtifact("corrupt"),
     Bundle({"model"}, ModelA, Names), Bundle({"features"}, ModelA, Names)}

Entered == {FormDefaults, Inputs(450, 123, 600, 4200, 151, 109)}

(***************************************************************************)
(* Spec: one process over its lifetime, with the operator replacing the    *)
(* two files between executions of the script.                             *)
(***************************************************************************)
LiveConfigs ==
    {NoFile("missing"), JsonFile(JOther("list"))}
        \cup {JsonFile(JObject({CutoffKey}, v)) : v \in {JNum(35), JNum(75)}}

LiveArtifacts ==
    BrokenArtifacts
        \cup {Bundle({"model", "features"}, ModelA, Names),
              Bundle({"model", "features"}, ModelB, ExampleOrder)}

Init ==
    /\ disk_model \in LiveArtifacts
    /\ disk_config \in LiveConfigs
    /\ Fresh

Next ==
    \/ \E submitted \in BOOLEAN : Rerun(submitted, FormDefaults)
    \/ \E file \in LiveConfigs : WriteConfig(file)
    \/ \E file \in LiveArtifacts : WriteModel(file)

Spec == Init /\ [][Next]_vars

(***************************************************************************)
(* SpecSubmit: a process whose files stay as they were at the start, for   *)
(* every config and every classifier.                                      *)
(***************************************************************************)
InitSubmit ==
    /\ disk_model \in BrokenArtifacts \cup {Bundle({"model", "features"}, m, Names) : m \in Models}
    /\ disk_config \in ConfigFiles
    /\ Fresh

NextSubmit == \E submitted \in BOOLEAN : Rerun(submitted, FormDefaults)

SpecSubmit == InitSubmit /\ [][NextSubmit]_vars

(***************************************************************************)
(* SpecOrder: a process for every order of the six features.               *)
(***************************************************************************)
InitOrder ==
    /\ disk_model \in {Bundle({"model", "features"}, ModelA, f) : f \in Orders(Names)}
    /\ disk_config \in {NoFile("missing"), JsonFile(JObject({CutoffKey}, JNum(35)))}
    /\ Fresh

NextOrder == \E submitted \in BOOLEAN, in \in Entered : Rerun(submitted, in)

SpecOrder == InitOrder /\ [][NextOrder]_vars

(***************************************************************************)
(* Properties                                                              *)
(***************************************************************************)
Did(step) == step \in Range(log)

\* the latest execution got past line 24, so it went on to the config
Started == Did("load_model")
\* the latest execution bound CUTOFF
Derived == Did("CUTOFF")
\* the latest execution built the frame and called predict_proba_hf
Predicted == Did("DataFrame")

\* C1: a rendered label is "Heart Failure" exactly when p_hf >= CUTOFF and
\* "Pneumonia" otherwise, so p_hf = CUTOFF gives "Heart Failure"
C1_DecisionMapping ==
    card.shown =>
        /\ card.label = pred_label
        /\ (pred_label = "Heart Failure") <=> (p_hf >= CUTOFF)
        /\ (pred_label = "Pneumonia") <=> (p_hf < CUTOFF)

C1_TieIsPositive ==
    /\ card.shown
    /\ CUTOFF = 35
    /\ p_hf = CUTOFF
    /\ card.label = "Heart Failure"

HoldsKey ==
    /\ disk_config.kind = "json"
    /\ disk_config.doc.t = "object"
    /\ CutoffKey \in disk_config.doc.keys

LacksKey ==
    \/ disk_config.kind # "json"
    \/ disk_config.doc.t = "object" /\ CutoffKey \notin disk_config.doc.keys

\* C2: with a mapping that holds youden_threshold, startup goes on and CUTOFF
\* is that value; with a missing, unreadable or unparseable file, or a mapping
\* without the key, startup goes on and CUTOFF is 0.50
C2_ThresholdDerivation ==
    Started =>
        /\ HoldsKey =>
            /\ Derived
            /\ disk_config.doc.v.t = "num" => CUTOFF = disk_config.doc.v.n
        /\ LacksKey => Derived /\ CUTOFF = DefaultCutoff

\* C3: the row handed to the model has, at each position i, the value entered
\* for the input named FEATURES[i]
C3_FeatureOrder ==
    Predicted =>
        /\ Len(x) = Len(FEATURES)
        /\ \A i \in DOMAIN FEATURES : x[i] = form[FEATURES[i]]

C3_ExampleOrderHanded ==
    /\ Predicted
    /\ card.shown
    /\ FEATURES = <<"CREA", "Age", "AG", "PDW", "RDW", "UA">>
    /\ form = FormDefaults
    /\ x = <<900, 700, 160, 125, 135, 3500>>

\* C4: every result of one process is decided with, and displays, the
\* threshold that the first start derived
C4_ThresholdLoadedOnce ==
    card.shown => first_cutoff.set /\ CUTOFF = first_cutoff.v /\ card.t = first_cutoff.v

Usable == HoldsKey /\ PyFloat(disk_config.doc.v).ok

\* C5: whatever config.json holds, startup completes and a threshold is in
\* force, which is 0.50 when the file gave no usable value
C5_ConfigNeverSurfaces ==
    Started =>
        /\ Derived
        /\ Did("form")
        /\ ~Usable => CUTOFF = DefaultCutoff

\* C6, as stated: joblib.load returns at most once in the life of the process,
\* and a stored model is what every later execution gets
C6_DeserializedAtMostOnce ==
    [][/\ loads' <= 1
       /\ store.full => store' = store /\ model' = store.model /\ FEATURES' = store.features]_vars

\* C6, amended: once a load_model call has returned, joblib.load is not called
\* again, and every later execution gets the model and the feature list of
\* that call, whatever model.joblib has become
C6_LoadedOnceStored ==
    [][store.full =>
        /\ store' = store
        /\ loads' = loads
        /\ model' = store.model
        /\ FEATURES' = store.features]_vars

C6_StoredModelOutlivesFile ==
    /\ hit
    /\ loads = 1
    /\ on_disk.kind = "bundle"
    /\ {"model", "features"} \subseteq on_disk.fields
    /\ on_disk.model # store.model
    /\ model = store.model
    /\ FEATURES = store.features
    /\ card.shown

\* the latest execution called the body of load_model on an artifact that is
\* missing, cannot be deserialized or lacks a field
LoadFailed ==
    /\ on_disk.kind # "unseen"
    /\ ~hit
    /\ \/ on_disk.kind \in {"missing", "corrupt"}
       \/ ~({"model", "features"} \subseteq on_disk.fields)

\* C7: a failed load ends the execution with the error of load_model: the
\* config is not read, no form is shown, no result is rendered, and nothing
\* is stored as a model
C7_ModelLoadFailureIsFatal ==
    LoadFailed =>
        /\ error \in {"FileNotFoundError", "UnpicklingError", "KeyError"}
        /\ log = <<>>
        /\ config = EmptyMapping
        /\ form = NoInputs
        /\ ~card.shown
        /\ ~store.full
        /\ model = NoModel

C7_MissingFieldRaised ==
    /\ LoadFailed
    /\ on_disk.kind = "bundle"
    /\ on_disk.fields = {"model"}
    /\ error = "KeyError"
    /\ loads = 1

\* C8: a threshold in force lies in [0, 1]
C8_ThresholdInUnitInterval ==
    Derived => 0 <= CUTOFF /\ CUTOFF <= One

\* C9: in every result the Pneumonia probability is 1 minus the Heart Failure
\* probability, both are rendered as computed, and both lie in [0, 1] when the
\* output of the model does
C9_Complementary ==
    card.shown =>
        /\ p_pna = One - p_hf
        /\ card.hf = p_hf
        /\ card.pna = p_pna
        /\ card.hf + card.pna = One
        /\ (0 <= p_hf /\ p_hf <= One) => (0 <= p_pna /\ p_pna <= One)
        /\ model.hasProba => p_hf \in Range(model.row)

C9_ResultShown ==
    /\ card.shown
    /\ card.hf = 35
    /\ card.pna = 65

ClassesOf(m) == IF m.hasClasses THEN m.classes ELSE <<0, 1>>

\* C10: with predict_proba the result is the entry of the first row under
\* label 1 of classes_, or under column 1 when classes_ has no label 1, and a
\* value is returned for every class list; decision_function is called, and
\* its score put through the sigmoid, only without predict_proba
C10_ProbabilityEstimation ==
    Predicted =>
        IF model.hasProba
        THEN /\ calls = <<"predict_proba">>
             /\ error = ""
             /\ card.shown
             /\ p_hf = IF 1 \in Range(ClassesOf(model))
                       THEN model.row[CHOOSE i \in DOMAIN ClassesOf(model) : ClassesOf(model)[i] = 1]
                       ELSE model.row[2]
        ELSE card.shown => calls = <<"decision_function">> /\ p_hf = Sigmoid(model.score)

====
